---- MODULE Spec2Model ----
(***************************************************************************)
(* Model of the user controller (src/controllers/user.controller.js):     *)
(* the referral tree resolver findRootUser, the reward handler            *)
(* referralRewardHandle, the handlers that build the store state they     *)
(* read (userSignupHandle, updateAddressOfUserHandle), the account        *)
(* handlers verifyOtpHandle, resendOtpHandle, loginHandle and             *)
(* changePasswordHandle, and the transaction report                       *)
(* transactionDetailsHandle.                                              *)
(*                                                                         *)
(* Every `await` of a handler is one step: the step performs the awaited  *)
(* store or gateway operation (which may throw) and runs the synchronous  *)
(* code that follows it up to the next await. Requests interleave at      *)
(* these steps only, as on the Node.js event loop.                        *)
(***************************************************************************)
EXTENDS Integers, Sequences, FiniteSets, TLC

\* ---------------------------------------------------------------- bounds
MaxUsers == 3
MaxRequests == 2
MaxAccounts == 2
MaxTime == 3

\* ---------------------------------------------------------------- values
\* JavaScript null / undefined for a user id or a row that was not found.
Null == 0

\* Strings are sequences of one-character strings, so that parsing and
\* formatting are computed and not assumed.
DigitChars == {"0", "1", "2", "3", "4", "5", "6", "7", "8", "9"}
DigitVal == ("0" :> 0) @@ ("1" :> 1) @@ ("2" :> 2) @@ ("3" :> 3) @@ ("4" :> 4) @@
            ("5" :> 5) @@ ("6" :> 6) @@ ("7" :> 7) @@ ("8" :> 8) @@ ("9" :> 9)
DigitChar == <<"0", "1", "2", "3", "4", "5", "6", "7", "8", "9">>

\* req.body.value as sent by the callers of the model: two integer strings
\* and one that BigInt() rejects.
Values == { <<"1", "0", "0", "0">>, <<"7">>, <<"1", ".", "5">> }

\* More of them for a request run alone: 0, 19, a negative integer and the
\* empty string (BigInt("") is 0n).
MoreValues == Values \cup { <<"0">>, <<"1", "9">>, <<"-", "1", "5">>, <<>> }

\* The wallet address a user links to the own account; <<>> is an unset one.
NoWallet == <<>>

\* The codes of generateOTP(): a call returns any of them, the one it
\* returned before included. NoOtp is the null of the otp column.
OtpOf(n) == <<"otp", n>>
Otps == {OtpOf(1), OtpOf(2)}
NoOtp == <<>>

\* getExpirationTime() at time t: the code is good for OtpTtl ticks.
OtpTtl == 1
ExpirationTime(t) == t + OtpTtl

\* The password sent with the k-th signup, and one nobody signed up with.
PasswordOf(k) == <<"password", k>>
WrongPassword == <<"password", 0>>

\* bcrypt.hash(password, 10) and bcrypt.compare(password, hash).
Hash(password) == <<"bcrypt", password>>
Compare(password, hash) == hash = Hash(password)
AddressOf(id) == <<"0x", id>>

\* ------------------------------------------------------- BigInt / Number
\* BigInt(string): the StringToBigInt grammar restricted to the characters
\* of Values: the empty string is 0n, an optional sign followed by decimal
\* digits is that integer, anything else throws a SyntaxError.
IsDecimalDigits(s) == Len(s) > 0 /\ \A i \in 1..Len(s) : s[i] \in DigitChars

IsBigIntLiteral(s) ==
    \/ s = <<>>
    \/ IsDecimalDigits(s)
    \/ Len(s) > 1 /\ s[1] \in {"-", "+"} /\ IsDecimalDigits(Tail(s))

RECURSIVE DigitsToNat(_)
DigitsToNat(s) ==
    IF s = <<>> THEN 0
    ELSE 10 * DigitsToNat(SubSeq(s, 1, Len(s) - 1)) + DigitVal[s[Len(s)]]

BigInt(s) ==
    IF s = <<>> THEN 0
    ELSE IF s[1] = "-" THEN 0 - DigitsToNat(Tail(s))
    ELSE IF s[1] = "+" THEN DigitsToNat(Tail(s))
    ELSE DigitsToNat(s)

\* BigInt division truncates toward zero.
BigIntDiv(a, b) ==
    IF (a >= 0) = (b > 0)
    THEN (IF a >= 0 THEN a ELSE 0 - a) \div (IF b > 0 THEN b ELSE 0 - b)
    ELSE 0 - ((IF a >= 0 THEN a ELSE 0 - a) \div (IF b > 0 THEN b ELSE 0 - b))

\* The digits written least significant first.
RECURSIVE NatToStringReversed(_)
NatToStringReversed(n) ==
    IF n < 10 THEN <<DigitChar[n + 1]>>
    ELSE <<DigitChar[(n % 10) + 1]>> \o NatToStringReversed(n \div 10)

RECURSIVE NatToString(_)
NatToString(n) ==
    IF n < 10 THEN <<DigitChar[n + 1]>>
    ELSE NatToString(n \div 10) \o <<DigitChar[(n % 10) + 1]>>

\* BigInt.prototype.toString(): decimal digits, "-" in front of a negative.
BigIntToString(n) == IF n < 0 THEN <<"-">> \o NatToString(0 - n) ELSE NatToString(n)

\* A tenth rounded to the nearest integer, as Math.round(value / 10) gives.
DirectRewardRounded(weiValue) == BigIntDiv(weiValue + 5, 10)

\* directReward = weiValue / BigInt(10)
TenPercent == 10
DirectReward(weiValue) == BigIntDiv(weiValue, TenPercent)

\* ----------------------------------------------------- natural numbers
\* A natural number of any size (the mantissas and their products do not
\* fit a machine integer): its digits in base BnBase, least significant
\* first, without leading zeros; <<>> is zero.
BnBase == 10000

BnDigit(a, i) == IF 1 <= i /\ i <= Len(a) THEN a[i] ELSE 0

BnNorm(a) ==
    LET used == {i \in 1..Len(a) : a[i] # 0}
    IN IF used = {} THEN <<>>
       ELSE SubSeq(a, 1, CHOOSE i \in used : \A j \in used : j <= i)

\* The number with the digits s[i] in 0 .. 2 * BnBase - 2: digit i takes a
\* carry when a digit below it reaches BnBase and every digit between the
\* two passes a carry on.
BnCarry(s) ==
    LET carry(i) == \E j \in 1..(i - 1) :
                        /\ s[j] >= BnBase
                        /\ \A k \in (j + 1)..(i - 1) : s[k] = BnBase - 1
    IN BnNorm([i \in 1..(Len(s) + 1) |->
                (BnDigit(s, i) + (IF carry(i) THEN 1 ELSE 0)) % BnBase])

BnAdd(a, b) ==
    IF a = <<>> THEN b
    ELSE IF b = <<>> THEN a
    ELSE BnCarry([i \in 1..(IF Len(a) > Len(b) THEN Len(a) ELSE Len(b)) |->
                BnDigit(a, i) + BnDigit(b, i)])

\* a - b, for a >= b: digit i gives a unit away when a digit below it is
\* short and every digit between the two has nothing to give.
BnSub(a, b) ==
    LET d(i) == a[i] - BnDigit(b, i)
        borrow(i) == \E j \in 1..(i - 1) :
                        /\ d(j) < 0
                        /\ \A k \in (j + 1)..(i - 1) : d(k) = 0
    IN IF b = <<>> THEN a
       ELSE IF a = b THEN <<>>
       ELSE BnNorm([i \in 1..Len(a) |->
                (d(i) - (IF borrow(i) THEN 1 ELSE 0) + BnBase) % BnBase])

\* a < b: by length, then by the highest digit that differs.
BnLess(a, b) ==
    \/ Len(a) < Len(b)
    \/ /\ Len(a) = Len(b)
       /\ \E i \in 1..Len(a) :
            a[i] < b[i] /\ \A j \in (i + 1)..Len(a) : a[j] = b[j]

\* a * k for a machine integer 0 <= k <= BnBase.
BnScale(a, k) ==
    IF a = <<>> \/ k = 0 THEN <<>>
    ELSE BnCarry([i \in 1..(Len(a) + 1) |->
                ((BnDigit(a, i) * k) % BnBase) + ((BnDigit(a, i - 1) * k) \div BnBase)])

\* a * BnBase^n
BnShift(a, n) == IF a = <<>> THEN <<>> ELSE [i \in 1..n |-> 0] \o a

RECURSIVE BnMul(_, _)
BnMul(a, b) ==
    IF a = <<>> \/ b = <<>> THEN <<>>
    ELSE BnAdd(BnScale(a, b[1]), BnShift(BnMul(a, Tail(b)), 1))

\* a * 2^n, thirteen binary digits at a time.
RECURSIVE BnTimesPow2(_, _)
BnTimesPow2(a, n) ==
    IF n <= 13 THEN BnScale(a, 2^n) ELSE BnTimesPow2(BnScale(a, 2^13), n - 13)

BnPow2(n) == BnTimesPow2(<<1>>, n)

\* a * 10^n
BnTimesPow10(a, n) == BnShift(BnScale(a, 10^(n % 4)), n \div 4)

\* d * b <= a
BnFits(a, b, d) == ~BnLess(a, BnScale(b, d))

\* The digit d of base BnBase with d * b <= a < (d + 1) * b, for a below
\* BnBase * b and b of n digits, the highest BnBase / 2 or more: the two
\* highest digits of a over the highest of b give d or a little more.
BnQuotDigit(a, b) ==
    LET n == Len(b)
        high == BnDigit(a, n + 1) * BnBase + BnDigit(a, n)
        most == IF high \div b[n] < BnBase THEN high \div b[n] ELSE BnBase - 1
    IN CHOOSE d \in (high \div (b[n] + 1))..most :
            BnFits(a, b, d) /\ ~BnFits(a, b, d + 1)

\* Long division of the digits i..1 of a by b # 0, rem the remainder of the
\* digits above: the digits of the quotient, most significant first. cur is
\* rem with the digit i of a behind it and d the digit of the quotient it
\* gives.
RECURSIVE BnDivFrom(_, _, _, _)
BnDivDigit(a, b, i, cur, d) ==
    <<d>> \o BnDivFrom(a, b, i - 1, BnSub(cur, BnScale(b, d)))

BnDivCur(a, b, i, cur) ==
    BnDivDigit(a, b, i, cur, IF BnLess(cur, b) THEN 0 ELSE BnQuotDigit(cur, b))

BnDivFrom(a, b, i, rem) ==
    IF i = 0 THEN <<>> ELSE BnDivCur(a, b, i, BnNorm(<<a[i]>> \o rem))

\* The number with these digits, most significant first.
BnOfQuotient(digits) ==
    BnNorm([i \in 1..Len(digits) |-> digits[Len(digits) + 1 - i]])

\* floor(a / b) for b # 0 with the highest digit BnBase / 2 or more.
BnQuotientScaled(a, b) == BnOfQuotient(BnDivFrom(a, b, Len(a), <<>>))

\* floor(a / b) for b # 0: a and b are first multiplied by the f that brings
\* the highest digit of b to BnBase / 2 or more.
BnQuotientBy(a, b, f) == BnQuotientScaled(BnScale(a, f), BnScale(b, f))

BnQuotient(a, b) ==
    IF BnLess(a, b) THEN <<>> ELSE BnQuotientBy(a, b, BnBase \div (b[Len(b)] + 1))

\* The quotient q of a by b # 0 with the remainder r.
BnWithRemainder(a, b, q) == [q |-> q, r |-> BnSub(a, BnMul(b, q))]

BnDivMod(a, b) == BnWithRemainder(a, b, BnQuotient(a, b))

BnOdd(a) == a # <<>> /\ a[1] % 2 = 1

\* a < low * 2^j
BnBelow(a, low, j) == BnLess(a, BnTimesPow2(low, j))

\* The number of binary digits of a, which has more than least of them, low
\* being 2^least.
BnBitsFrom(a, least, low) ==
    CHOOSE k \in (least + 1)..(14 * Len(a)) :
        BnBelow(a, low, k - least) /\ ~BnBelow(a, low, k - 1 - least)

\* The number of binary digits of a: a number of n digits of base BnBase
\* has more than 13 * (n - 1) and at most 14 * n of them.
BnBits(a) ==
    IF a = <<>> THEN 0
    ELSE BnBitsFrom(a, 13 * (Len(a) - 1), BnPow2(13 * (Len(a) - 1)))

\* The integer a string of decimal digits denotes, four digits to a digit
\* of base BnBase.
BnOfDigits(digits) ==
    LET len == Len(digits)
    IN BnNorm([i \in 1..((len + 3) \div 4) |->
                DigitsToNat(SubSeq(digits, IF len - 4 * i + 1 < 1 THEN 1
                                           ELSE len - 4 * i + 1,
                                   len - 4 * (i - 1)))])

\* The n decimal digits of a < 10^n, most significant first.
BnToDigits(a, n) ==
    [i \in 1..n |-> (BnDigit(a, ((n - i) \div 4) + 1) \div 10^((n - i) % 4)) % 10]

\* ------------------------------------------------ Number (IEEE 754 double)
\* A JavaScript Number is the double mant * 2^exp with its sign: mant has
\* MantissaBits binary digits, or is zero. The exponent is not limited: the
\* values of the model stay far from overflow and from the subnormals.
MantissaBits == 53
MantissaMin == BnPow2(MantissaBits - 1)
MantissaEnd == BnPow2(MantissaBits)

NumberZero(neg) == [neg |-> neg, mant |-> <<>>, exp |-> 0]

\* The double m * 2^e for a mantissa m that was rounded, up to MantissaEnd.
Rounded(neg, m, e) ==
    IF m = MantissaEnd THEN [neg |-> neg, mant |-> MantissaMin, exp |-> e + 1]
    ELSE [neg |-> neg, mant |-> m, exp |-> e]

\* The double nearest to (d.q + d.r / unit) * 2^e: up when the remainder is
\* more than half the unit, and to the even mantissa when it is the half.
RoundHalfEven(neg, d, unit, e) ==
    LET twice == BnScale(d.r, 2)
    IN Rounded(neg,
               IF BnLess(unit, twice) \/ (twice = unit /\ BnOdd(d.q))
               THEN BnAdd(d.q, <<1>>) ELSE d.q,
               e)

\* The double nearest to n * 2^e for n # 0 with shift binary digits more
\* than a mantissa has.
RoundBits(neg, n, e, shift) ==
    IF shift <= 0
    THEN [neg |-> neg, mant |-> BnTimesPow2(n, 0 - shift), exp |-> e + shift]
    ELSE RoundHalfEven(neg, BnDivMod(n, BnPow2(shift)), BnPow2(shift), e + shift)

\* The double nearest to n * 2^e, a tie going to the even mantissa.
RoundToDouble(neg, n, e) ==
    IF n = <<>> THEN NumberZero(neg)
    ELSE RoundBits(neg, n, e, BnBits(n) - MantissaBits)

\* Number(string) for the strings BigInt() accepted: "" is 0, an optional
\* sign followed by decimal digits is the double nearest to that integer.
ToNumber(s) ==
    LET signed == s # <<>> /\ s[1] \in {"-", "+"}
    IN RoundToDouble(s # <<>> /\ s[1] = "-",
                     BnOfDigits(IF signed THEN Tail(s) ELSE s), 0)

\* The double nearest to (d.q + d.r / b) * 2^(e + 1) for a quotient d.q of
\* more binary digits than a mantissa has: one more digit is set when a
\* remainder is left.
RoundQuotient(neg, d, e) ==
    RoundToDouble(neg,
                  IF d.r = <<>> THEN BnScale(d.q, 2)
                  ELSE BnAdd(BnScale(d.q, 2), <<1>>),
                  e)

\* a / b for b # 0, correctly rounded: the quotient of the mantissas to
\* MantissaBits + 3 binary digits or more.
NumberDiv(a, b) ==
    IF a.mant = <<>> THEN NumberZero(a.neg # b.neg)
    ELSE RoundQuotient(a.neg # b.neg,
                       BnDivMod(BnTimesPow2(a.mant, MantissaBits + 3), b.mant),
                       a.exp - b.exp - (MantissaBits + 4))

\* a * b, correctly rounded.
NumberMul(a, b) ==
    IF a.mant = <<>> \/ b.mant = <<>> THEN NumberZero(a.neg # b.neg)
    ELSE RoundToDouble(a.neg # b.neg, BnMul(a.mant, b.mant), a.exp + b.exp)

\* The literals 2.5 and 100 of line 898.
TwoPointFive == RoundToDouble(FALSE, <<5>>, 0 - 1)
Hundred == RoundToDouble(FALSE, <<100>>, 0)

\* rootReward = (2.5 / 100) * value, value coerced from the request string
RootReward(value) == NumberMul(NumberDiv(TwoPointFive, Hundred), ToNumber(value))

\* mant * up / down = r / s, and the numbers half-way to the doubles next
\* to it are (r + mp) / s above and (r - mm) / s below: every decimal
\* strictly between them reads back as this double, and so do the two when
\* the mantissa is even. The double below MantissaMin is half as far.
BoundariesOf(mant, up, down) ==
    LET twice == IF mant = MantissaMin THEN 4 ELSE 2
    IN [r |-> BnScale(BnMul(mant, up), twice), s |-> BnScale(down, twice),
        mp |-> BnScale(up, twice \div 2), mm |-> up, even |-> ~BnOdd(mant)]

Boundaries(x) ==
    IF x.exp >= 0 THEN BoundariesOf(x.mant, BnPow2(x.exp), <<1>>)
    ELSE BoundariesOf(x.mant, <<1>>, BnPow2(0 - x.exp))

\* high / one is more than 1, or it is 1 and reads back as the double.
Reaches(even, high, one) == BnLess(one, high) \/ (even /\ high = one)

\* The upper half-way point of z is 10^n or more, or reads back as another
\* double.
ReachesPow10(z, n) ==
    IF n < 0 THEN Reaches(z.even, BnTimesPow10(BnAdd(z.r, z.mp), 0 - n), z.s)
    ELSE Reaches(z.even, BnAdd(z.r, z.mp), BnTimesPow10(z.s, n))

\* The n with 10^(n-1) <= the decimals that read back as the double < 10^n.
PointOf(z) ==
    CHOOSE n \in (1 - 4 * Len(z.s))..(4 * Len(z.r) + 4) :
        ReachesPow10(z, n - 1) /\ ~ReachesPow10(z, n)

\* No decimal needs more than MaxDigits digits to read back as its double.
MaxDigits == 17

\* z with r, mp, mm and s brought to the scale where the decimals that read
\* back as the double are the integers c below 10^MaxDigits with c * s
\* between r - mm and r + mp.
Scaled(z, n) ==
    IF n <= MaxDigits
    THEN [z EXCEPT !.r = BnTimesPow10(@, MaxDigits - n),
                   !.mp = BnTimesPow10(@, MaxDigits - n),
                   !.mm = BnTimesPow10(@, MaxDigits - n)]
    ELSE [z EXCEPT !.s = BnTimesPow10(@, n - MaxDigits)]

\* cs lies between low and high, which count when the mantissa is even.
Between(even, low, cs, high) ==
    /\ BnLess(low, cs) \/ (even /\ low = cs)
    /\ BnLess(cs, high) \/ (even /\ high = cs)

\* c * s lies between the half-way points of z.
ReadsBack(z, c) == Between(z.even, BnSub(z.r, z.mm), BnMul(z.s, c), BnAdd(z.r, z.mp))

\* Of two decimals, under below the double and over above it: the one
\* below is the nearer, or as near and even.
Nearer(under, over, evenBelow) ==
    BnLess(under, over) \/ (under = over /\ evenBelow)

\* Of the decimals below and above the double, the one that reads back as
\* it and is the nearer; <<>> when neither reads back.
ClosestOf(z, below, above, isBelow, isAbove, evenBelow) ==
    IF isBelow /\ isAbove
    THEN (IF Nearer(BnSub(z.r, BnMul(z.s, below)), BnSub(BnMul(z.s, above), z.r),
                    evenBelow)
          THEN below ELSE above)
    ELSE IF isBelow THEN below
    ELSE IF isAbove THEN above
    ELSE <<>>

\* The decimal of k digits below the double, given the MaxDigits digits of
\* floor(r / s): its first k digits with zeros behind them.
Below(digits, k) ==
    BnOfDigits([i \in 1..MaxDigits |-> DigitChar[(IF i <= k THEN digits[i] ELSE 0) + 1]])

\* The two decimals of k digits around the double; the one below has k
\* digits when its first is not 0.
Around(z, digits, below, above, k) ==
    ClosestOf(z, below, above, digits[1] # 0 /\ ReadsBack(z, below),
              ReadsBack(z, above), digits[k] % 2 = 0)

\* The decimal of k digits that reads back as the double and is the closest
\* to it, the even one of two as close; <<>> when there is none.
Closest(z, digits, k) ==
    Around(z, digits, Below(digits, k),
           BnAdd(Below(digits, k), BnTimesPow10(<<1>>, MaxDigits - k)), k)

\* The digits of the shortest of the decimals found[k] of k digits.
ShortestOf(found) ==
    LET k == CHOOSE i \in 1..MaxDigits :
                found[i] # <<>> /\ \A j \in 1..(i - 1) : found[j] = <<>>
    IN SubSeq(BnToDigits(found[k], MaxDigits), 1, k)

ShortestFrom(z, digits) == ShortestOf([k \in 1..MaxDigits |-> Closest(z, digits, k)])

\* The digits of the shortest decimal that reads back as the double, the
\* closest to it among the shortest.
Shortest(z) == ShortestFrom(z, BnToDigits(BnQuotient(z.r, z.s), MaxDigits))

\* The digits with their power of ten n, written without exponent for
\* 10^-7 <= x < 10^21.
NumberFormat(neg, digits, n) ==
    LET k == Len(digits)
        ds == [i \in 1..k |-> DigitChar[digits[i] + 1]]
        zeros(c) == [i \in 1..c |-> "0"]
        e == n - 1
        es == <<"e">> \o (IF e < 0 THEN <<"-">> \o NatToString(0 - e)
                         ELSE <<"+">> \o NatToString(e))
    IN (IF neg THEN <<"-">> ELSE <<>>) \o
       (IF k <= n /\ n <= 21 THEN ds \o zeros(n - k)
        ELSE IF 0 < n /\ n <= 21
        THEN SubSeq(ds, 1, n) \o <<".">> \o SubSeq(ds, n + 1, k)
        ELSE IF 0 - 6 < n /\ n <= 0 THEN <<"0", ".">> \o zeros(0 - n) \o ds
        ELSE IF k = 1 THEN ds \o es
        ELSE <<ds[1], ".">> \o SubSeq(ds, 2, k) \o es)

NumberDigits(neg, z, n) == NumberFormat(neg, Shortest(Scaled(z, n)), n)

NumberPoint(neg, z) == NumberDigits(neg, z, PointOf(z))

\* Number.prototype.toString(): the shortest digits that read back as x and
\* their power of ten.
NumberToString(x) ==
    IF x.mant = <<>> THEN <<"0">> ELSE NumberPoint(x.neg, Boundaries(x))

\* ------------------------------------------------------------------ state
VARIABLES
    user,             \* table User: user[id], id = 1..Len(user) (autoincrement)
    referral,         \* table Referral: set of [referrerId, referredId]
    coreTeamMembers,  \* table CoreTeamMembers: set of user ids
    transaction,      \* table Transaction: sequence of rows, in insertion order
    transfers,        \* calls made to contractInstance.transfer, in call order
    req,              \* the referralRewardHandle requests, req[r]
    signup,           \* the userSignupHandle requests run step by step, signup[s]
    tx,               \* the transactionDetailsHandle requests, tx[t]
    verify,           \* the verifyOtpHandle requests, verify[v]
    resend,           \* the resendOtpHandle requests, resend[v]
    login,            \* the loginHandle requests, login[v]
    addressReq,       \* the updateAddressOfUserHandle request under way
    passwordReq,      \* the changePasswordHandle request
    now               \* the clock read by new Date(), in ticks

vars == <<user, referral, coreTeamMembers, transaction, transfers, req, signup, tx,
          verify, resend, login, addressReq, passwordReq, now>>

UserIds == 1..Len(user)
Requests == 1..MaxRequests
Signups == 1..MaxUsers
TxRequests == 1..MaxRequests

\* What prisma.referral.findUnique resolves to when no edge matches.
NoEdge == [referrerId |-> Null, referredId |-> Null]

\* A request that was not sent yet. currentUser is the local of findRootUser.
NoRequest ==
    [pc |-> "new", userId |-> Null, value |-> <<>>, referrer |-> Null,
     walletAddress |-> NoWallet, hash |-> <<>>, currentUser |-> NoEdge,
     rootUser |-> Null, rootWallet |-> NoWallet, status |-> 0, error |-> ""]

\* A signup that was not sent yet.
NoSignup ==
    [pc |-> "new", email |-> 0, referralCode |-> <<>>, newUser |-> Null,
     referrer |-> Null, otp |-> NoOtp, otpExpiresAt |-> Null, status |-> 0]

\* An OTP verification, an OTP resend and a login that were not sent yet.
NoVerify == [pc |-> "new", email |-> 0, otp |-> NoOtp, status |-> 0]
NoResend ==
    [pc |-> "new", email |-> 0, otp |-> NoOtp, expiryOtp |-> Null, status |-> 0]
NoToken == [userId |-> Null, email |-> 0]

\* What the handlers keep of the user row prisma.user.findUnique gave them;
\* NoRow before the lookup and after the answer.
NoRow == [id |-> Null, email |-> 0, password |-> <<>>, isVerified |-> FALSE]
RowRead(id, row) ==
    [id |-> id, email |-> row.email, password |-> row.password,
     isVerified |-> row.isVerified]

NoLogin ==
    [pc |-> "new", password |-> <<>>, user |-> NoRow, status |-> 0,
     token |-> NoToken]

\* A password change that was not sent yet.
NoPasswordReq ==
    [pc |-> "new", email |-> 0, oldPassword |-> <<>>, newPassword |-> <<>>,
     user |-> [password |-> <<>>], hashedPassword |-> <<>>, status |-> 0]

\* A transaction report that was not sent yet.
NoTx ==
    [pc |-> "new", userId |-> Null, body |-> <<>>, status |-> 0]

\* An address update that was not sent yet.
NoAddressReq == [pc |-> "new", userId |-> Null, address |-> NoWallet, status |-> 0]

Init ==
    /\ verify = [v \in Requests |-> NoVerify]
    /\ resend = [v \in Requests |-> NoResend]
    /\ login = [v \in Requests |-> NoLogin]
    /\ addressReq = NoAddressReq
    /\ passwordReq = NoPasswordReq
    /\ now = 1
    /\ signup = [s \in Signups |-> NoSignup]
    /\ tx = [t \in TxRequests |-> NoTx]
    /\ user = <<>>
    /\ referral = {}
    /\ coreTeamMembers = {}
    /\ transaction = <<>>
    /\ transfers = <<>>
    /\ req = [r \in Requests |-> NoRequest]

\* ------------------------------------------------------------ the store
\* prisma.referral.findUnique({ where: { referredId } }): the edge, or Null.
\* referredId is unique, so at most one edge matches.
FindReferral(ref, referredId) ==
    IF \E e \in ref : e.referredId = referredId
    THEN CHOOSE e \in ref : e.referredId = referredId
    ELSE NoEdge

IsEdge(e) == e.referredId # Null

\* ------------------------------------------------------- findRootUser
\* A resolver that makes no lookup: it returns the user it was given.
FindRootEnterStart(ref, userId) ==
    [returns |-> TRUE, root |-> userId, currentUser |-> NoEdge]

\* Lines 22-27 and 38: the first lookup. Without an edge into userId the
\* loop is not entered and findRootUser returns null; with one, it goes on
\* to the lookup of line 28.
FindRootEnter(ref, userId) ==
    LET currentUser == FindReferral(ref, userId)
    IN [returns |-> ~(IsEdge(currentUser) /\ currentUser.referrerId # Null),
        root |-> Null, currentUser |-> currentUser]

\* A round of the loop that returns the referrer of the edge it holds.
FindRootStepNoWalk(ref, currentUser) ==
    [returns |-> TRUE, root |-> currentUser.referrerId, currentUser |-> currentUser]

\* Lines 28-35, one round of the loop: the lookup of the edge into the
\* referrer of currentUser. Without such an edge the function returns
\* currentUser?.referrer || null; with one, the loop condition of line 27
\* holds and the next round starts.
FindRootStep(ref, currentUser) ==
    LET next == FindReferral(ref, currentUser.referrerId)
    IN IF ~IsEdge(next) \/ next.referrerId = Null
       THEN [returns |-> TRUE,
             root |-> IF IsEdge(next) THEN next.referrerId ELSE Null,
             currentUser |-> next]
       ELSE [returns |-> FALSE, root |-> Null, currentUser |-> next]

\* The loop of findRootUser from an edge currentUser on, run against one
\* edge set: fuel counts the lookups left; a walk that outlives one lookup
\* per edge never ends.
RECURSIVE FindRootLoop(_, _, _)
FindRootLoop(ref, currentUser, fuel) ==
    LET round == FindRootStep(ref, currentUser)
    IN IF fuel = 0 THEN [terminates |-> FALSE, root |-> Null]
       ELSE IF round.returns THEN [terminates |-> TRUE, root |-> round.root]
       ELSE FindRootLoop(ref, round.currentUser, fuel - 1)

\* findRootUser(userId) run against the edge set ref.
findRootUser(ref, userId) ==
    LET enter == FindRootEnter(ref, userId)
    IN IF enter.returns THEN [terminates |-> TRUE, root |-> enter.root]
       ELSE FindRootLoop(ref, enter.currentUser, Cardinality(ref) + 1)

\* ------------------------------------------------------ account handlers
\* The referral code generateCode() gives the user with this id.
CodeOf(id) == <<"code", id>>

\* prisma.user.findUnique({ where: { referralCode } }): the id, or Null.
FindUserByCode(users, referralCode) ==
    IF \E id \in 1..Len(users) : users[id].referralCode = referralCode
    THEN CHOOSE id \in 1..Len(users) : users[id].referralCode = referralCode
    ELSE Null

\* An edge written with its two ends exchanged.
ReferralEdgeSwapped(referrerId, referredId) ==
    [referrerId |-> referredId, referredId |-> referrerId]

\* The data of prisma.referral.create at signup.
ReferralEdge(referrerId, referredId) ==
    [referrerId |-> referrerId, referredId |-> referredId]

\* prisma.user.findUnique({ where: { email } }): the id, or Null.
FindUserByEmail(users, email) ==
    IF \E id \in 1..Len(users) : users[id].email = email
    THEN CHOOSE id \in 1..Len(users) : users[id].email = email
    ELSE Null

\* A User table whose email column is not unique.
EmailNotUnique(users, email) == FALSE

\* prisma.user.create throws for this email: the column is @unique.
EmailUniqueViolated(users, email) == FindUserByEmail(users, email) # Null

\* The data of prisma.user.create at signup, with the defaults of the
\* schema: isVerified false, no wallet address.
NewUser(email, hashedPassword, otp, expiryTime, newReferralCode) ==
    [email |-> email, password |-> hashedPassword, isVerified |-> FALSE,
     otp |-> otp, otpExpiresAt |-> expiryTime,
     referralCode |-> newReferralCode, walletAddress |-> NoWallet]

\* userSignupHandle, lines 42-161, with a valid body. The response of a
\* signup: the handler returns and its locals are gone; the
\* request keeps the email it was sent for.
SignupRespond(q, code) ==
    [NoSignup EXCEPT !.pc = "done", !.email = q.email, !.status = code]

\* The body is valid. prisma.user.findUnique({ where: { email } }): a taken
\* email is answered 401; else the OTP and its expiry are generated and the
\* handler goes on to create the user. ok = FALSE: the lookup throws. The
\* await of bcrypt.hash (line 101) lies between this step and the next: it
\* reads and writes nothing of the store, so the wait for it is the wait
\* for the create, and its throw is answered as the throw of the create.
SignupFindEmail(s, email, referralCode, otp, ok) ==
    /\ signup[s].pc = "new"
    /\ \A x \in 1..(s - 1) : signup[x].pc # "new"
    /\ LET q == [signup[s] EXCEPT !.email = email]
           existingUser == FindUserByEmail(user, email)
       IN signup' = [signup EXCEPT ![s] =
            IF ~ok \/ existingUser # Null
            THEN SignupRespond(q, IF ~ok THEN 501 ELSE 401)
            ELSE [q EXCEPT !.pc = "createUser", !.referralCode = referralCode,
                           !.otp = otp,
                           !.otpExpiresAt = ExpirationTime(now)]]
    /\ UNCHANGED <<passwordReq, addressReq, verify, resend, login, now, user, referral, coreTeamMembers, transaction, transfers, req, tx>>

\* prisma.user.create: throws when the store fails or when the email was
\* taken meanwhile (email is @unique); else the row is written with a fresh
\* id and referral code. Then, with a referral code in the body, the
\* handler goes on to look the referrer up, else to send the mail.
SignupCreateUser(s, ok) ==
    /\ signup[s].pc = "createUser"
    /\ LET q == signup[s]
           newId == Len(user) + 1
       IN IF ~ok \/ EmailUniqueViolated(user, q.email)
          THEN /\ signup' = [signup EXCEPT ![s] = SignupRespond(q, 501)]
               /\ user' = user
          ELSE /\ user' = Append(user, NewUser(q.email, Hash(PasswordOf(s)), q.otp,
                                               q.otpExpiresAt, CodeOf(newId)))
               /\ signup' = [signup EXCEPT ![s] =
                    [q EXCEPT !.newUser = newId,
                              !.pc = IF q.referralCode # <<>>
                                     THEN "findReferrer" ELSE "sendMail"]]
    /\ UNCHANGED <<passwordReq, addressReq, verify, resend, login, now, referral, coreTeamMembers, transaction, transfers, req, tx>>

\* prisma.user.findUnique({ where: { referralCode } }): with a referrer the
\* handler goes on to create the edge, else to send the mail.
SignupFindReferrer(s, ok) ==
    /\ signup[s].pc = "findReferrer"
    /\ LET referrer == FindUserByCode(user, signup[s].referralCode)
       IN signup' = [signup EXCEPT ![s] =
            IF ~ok THEN SignupRespond(@, 501)
            ELSE [@ EXCEPT !.referrer = referrer,
                           !.pc = IF referrer # Null
                                  THEN "createReferral" ELSE "sendMail"]]
    /\ UNCHANGED <<passwordReq, addressReq, verify, resend, login, now, user, referral, coreTeamMembers, transaction, transfers, req, tx>>

\* prisma.referral.create({ referrerId: referrer.id, referredId: newUser.id }).
SignupCreateReferral(s, ok) ==
    /\ signup[s].pc = "createReferral"
    /\ LET q == signup[s]
       IN IF ~ok
          THEN /\ signup' = [signup EXCEPT ![s] = SignupRespond(q, 501)]
               /\ referral' = referral
          ELSE /\ referral' = referral \cup {ReferralEdge(q.referrer, q.newUser)}
               /\ signup' = [signup EXCEPT ![s].pc = "sendMail"]
    /\ UNCHANGED <<passwordReq, addressReq, verify, resend, login, now, user, coreTeamMembers, transaction, transfers, req, tx>>

\* verifyOtpMail, then 201; a mail that throws is answered 501.
SignupSendMail(s, ok) ==
    /\ signup[s].pc = "sendMail"
    /\ signup' = [signup EXCEPT ![s] = SignupRespond(@, IF ok THEN 201 ELSE 501)]
    /\ UNCHANGED <<passwordReq, addressReq, verify, resend, login, now, user, referral, coreTeamMembers, transaction, transfers, req, tx>>

\* -------------------------------------------------------- verifyOtpHandle
\* res.status(code).json(...): the handler returns; the request keeps the
\* body it was sent with.
VerifyRespond(q, code) == [q EXCEPT !.pc = "done", !.status = code]

\* Lines 191-208 let the handler through: the row has an OTP and an expiry,
\* the clock t is not past the expiry, and the body's otp is the row's.
OtpAccepted(row, otp, t) ==
    /\ row.otp # NoOtp
    /\ row.otpExpiresAt # Null
    /\ ~(t > row.otpExpiresAt)
    /\ otp = row.otp

\* An update that marks the user verified and leaves the OTP in the row.
VerifiedKeepsOtp(row) == [row EXCEPT !.isVerified = TRUE]

\* The data of prisma.user.update at lines 211-218.
Verified(row) ==
    [row EXCEPT !.isVerified = TRUE, !.otp = NoOtp, !.otpExpiresAt = Null]

\* Lines 164-208, the body valid: the user is looked up by email; no user
\* is answered 404, an OTP that is missing, expired or not the body's 400;
\* else the handler goes on to the update. ok = FALSE: the lookup throws.
\* Requests are numbered in the order they are sent.
VerifyOtpFind(v, email, otp, ok) ==
    /\ verify[v].pc = "new"
    /\ \A x \in 1..(v - 1) : verify[x].pc # "new"
    /\ LET q == [verify[v] EXCEPT !.email = email, !.otp = otp]
           id == FindUserByEmail(user, email)
       IN verify' = [verify EXCEPT ![v] =
            IF ~ok THEN VerifyRespond(q, 500)
            ELSE IF id = Null THEN VerifyRespond(q, 404)
            ELSE IF ~OtpAccepted(user[id], otp, now) THEN VerifyRespond(q, 400)
            ELSE [q EXCEPT !.pc = "update"]]
    /\ UNCHANGED <<passwordReq, addressReq, user, referral, coreTeamMembers, transaction, transfers, req,
                   signup, tx, resend, login, now>>

\* Lines 211-234: prisma.user.update({ where: { email } }), then 200; an
\* update that throws is answered 500.
VerifyOtpUpdate(v, ok) ==
    /\ verify[v].pc = "update"
    /\ LET id == FindUserByEmail(user, verify[v].email)
       IN user' = IF ok THEN [user EXCEPT ![id] = Verified(@)] ELSE user
    /\ verify' = [verify EXCEPT ![v] = VerifyRespond(@, IF ok THEN 200 ELSE 500)]
    /\ UNCHANGED <<passwordReq, addressReq, referral, coreTeamMembers, transaction, transfers, req,
                   signup, tx, resend, login, now>>

\* -------------------------------------------------------- resendOtpHandle
\* The response of a resend; a 201 carries the new OTP in its body.
ResendRespond(code) == [NoResend EXCEPT !.pc = "done", !.status = code]
OtpSent(otp) == [ResendRespond(201) EXCEPT !.otp = otp]

\* Lines 239-262, the body valid: no user is answered 401; else a new OTP
\* (otp is what generateOTP() returns) and expiry are generated and the
\* handler goes on to store them. ok = FALSE: the lookup throws.
ResendOtpFind(v, email, otp, ok) ==
    /\ resend[v].pc = "new"
    /\ \A x \in 1..(v - 1) : resend[x].pc # "new"
    /\ LET q == [resend[v] EXCEPT !.email = email]
           id == FindUserByEmail(user, email)
       IN resend' = [resend EXCEPT ![v] =
            IF ~ok \/ id = Null
            THEN ResendRespond(IF ~ok THEN 501 ELSE 401)
            ELSE [q EXCEPT !.pc = "update", !.otp = otp,
                           !.expiryOtp = ExpirationTime(now)]]
    /\ UNCHANGED <<passwordReq, addressReq, user, referral, coreTeamMembers, transaction, transfers, req,
                   signup, tx, verify, login, now>>

\* Lines 264-270: prisma.user.update writes the new OTP and its expiry.
ResendOtpUpdate(v, ok) ==
    /\ resend[v].pc = "update"
    /\ LET q == resend[v]
           id == FindUserByEmail(user, q.email)
       IN IF ok
          THEN /\ user' = [user EXCEPT ![id].otp = q.otp,
                                       ![id].otpExpiresAt = q.expiryOtp]
               /\ resend' = [resend EXCEPT ![v].pc = "mail", ![v].expiryOtp = Null]
          ELSE /\ user' = user
               /\ resend' = [resend EXCEPT ![v] = ResendRespond(501)]
    /\ UNCHANGED <<passwordReq, addressReq, referral, coreTeamMembers, transaction, transfers, req,
                   signup, tx, verify, login, now>>

\* Lines 272-282: verifyOtpMail, then 201; a mail that throws is answered 501.
ResendOtpMail(v, ok) ==
    /\ resend[v].pc = "mail"
    /\ resend' = [resend EXCEPT ![v] =
                    IF ok THEN OtpSent(resend[v].otp) ELSE ResendRespond(501)]
    /\ UNCHANGED <<passwordReq, addressReq, user, referral, coreTeamMembers, transaction, transfers, req,
                   signup, tx, verify, login, now>>

\* ------------------------------------------------------------ loginHandle
\* A login that takes every user for verified.
AccountVerifiedAlways(row) == TRUE

\* Line 319: user.isVerified == false sends the caller away.
AccountVerified(row) == row.isVerified # FALSE

\* Jwt.sign({ userId: user.id, email: user.email }, ...).
Token(id, row) == [userId |-> id, email |-> row.email]

\* res.status(code).json(...): the handler returns and its locals are gone.
LoginRespond(code) == [NoLogin EXCEPT !.pc = "done", !.status = code]

\* loginHandle with a valid body, lines 285-313: prisma.user.findUnique
\* ({ where: { email } }). Without a row line 313 answers 401 before it
\* awaits anything; with one, the handler keeps the row and awaits
\* bcrypt.compare. ok = FALSE: the lookup throws.
LoginFind(l, email, password, ok) ==
    /\ login[l].pc = "new"
    /\ \A x \in 1..(l - 1) : login[x].pc # "new"
    /\ LET id == FindUserByEmail(user, email)
           q == [login[l] EXCEPT !.password = password]
       IN login' = [login EXCEPT ![l] =
            IF ~ok THEN LoginRespond(501)
            ELSE IF id = Null THEN LoginRespond(401)
            ELSE [q EXCEPT !.pc = "compare", !.user = RowRead(id, user[id])]]
    /\ UNCHANGED <<passwordReq, addressReq, user, referral, coreTeamMembers, transaction, transfers, req,
                   signup, tx, verify, resend, now>>

\* Lines 313-350: bcrypt.compare returns, and the answer is made from the
\* row read at line 307, whatever the store holds by now: 401 for a wrong
\* password, 401 for a row that was not verified, else 200 with the token.
\* ok = FALSE: the comparison throws.
LoginCompare(l, ok) ==
    /\ login[l].pc = "compare"
    /\ LET q == login[l]
       IN login' = [login EXCEPT ![l] =
            IF ~ok THEN LoginRespond(501)
            ELSE IF ~Compare(q.password, q.user.password) THEN LoginRespond(401)
            ELSE IF ~AccountVerified(q.user) THEN LoginRespond(401)
            ELSE [LoginRespond(200) EXCEPT !.token = Token(q.user.id, q.user)]]
    /\ UNCHANGED <<passwordReq, addressReq, user, referral, coreTeamMembers, transaction, transfers, req,
                   signup, tx, verify, resend, now>>

\* ---------------------------------------------------- changePasswordHandle
\* res.status(code).json(...): the handler returns and its locals are gone.
PasswordRespond(code) == [NoPasswordReq EXCEPT !.pc = "done", !.status = code]

\* schema.validate(req.body) without error: the passwords are strings of 8
\* characters or more, as every password of the model but the empty one
\* is, and confirmPassword is newPassword.
ValidPasswordBody(oldPassword, newPassword, confirmPassword) ==
    /\ oldPassword # <<>>
    /\ newPassword # <<>>
    /\ confirmPassword = newPassword

\* Lines 361-401: an invalid body is answered 400; else the row of the
\* email is looked up, an email without row is answered 404, and otherwise
\* the handler keeps the row (the model the one column the handler reads
\* of it) and awaits the comparison of the old password. ok = FALSE: the
\* lookup throws.
ChangePasswordFind(email, oldPassword, newPassword, confirmPassword, ok) ==
    /\ passwordReq.pc = "new"
    /\ LET id == FindUserByEmail(user, email)
           q == [passwordReq EXCEPT !.email = email, !.oldPassword = oldPassword,
                                    !.newPassword = newPassword]
       IN passwordReq' =
            IF ~ValidPasswordBody(oldPassword, newPassword, confirmPassword)
            THEN PasswordRespond(400)
            ELSE IF ~ok THEN PasswordRespond(500)
            ELSE IF id = Null THEN PasswordRespond(404)
            ELSE [q EXCEPT !.pc = "compareOld",
                           !.user = [password |-> user[id].password]]
    /\ UNCHANGED <<addressReq, user, referral, coreTeamMembers, transaction, transfers, req,
                   signup, tx, verify, resend, login, now>>

\* Lines 403-407: bcrypt.compare(oldPassword, user.password) on the row
\* read at line 393; a wrong old password is answered 401.
ChangePasswordCompareOld(ok) ==
    /\ passwordReq.pc = "compareOld"
    /\ LET q == passwordReq
       IN passwordReq' =
            IF ~ok THEN PasswordRespond(500)
            ELSE IF ~Compare(q.oldPassword, q.user.password) THEN PasswordRespond(401)
            ELSE [q EXCEPT !.pc = "compareNew"]
    /\ UNCHANGED <<addressReq, user, referral, coreTeamMembers, transaction, transfers, req,
                   signup, tx, verify, resend, login, now>>

\* Lines 410-420: bcrypt.compare(newPassword, user.password) on the same
\* row; a new password that is the old one is answered 400. Otherwise the
\* handler goes on to hash the new password.
ChangePasswordCompareNew(ok) ==
    /\ passwordReq.pc = "compareNew"
    /\ LET q == passwordReq
       IN passwordReq' =
            IF ~ok THEN PasswordRespond(500)
            ELSE IF Compare(q.newPassword, q.user.password) THEN PasswordRespond(400)
            ELSE [q EXCEPT !.pc = "hash"]
    /\ UNCHANGED <<addressReq, user, referral, coreTeamMembers, transaction, transfers, req,
                   signup, tx, verify, resend, login, now>>

\* Line 423: bcrypt.hash(newPassword, 10) returns the hash the update will
\* write. ok = FALSE: the hashing throws.
ChangePasswordHash(ok) ==
    /\ passwordReq.pc = "hash"
    /\ passwordReq' =
            IF ~ok THEN PasswordRespond(500)
            ELSE [passwordReq EXCEPT !.pc = "update",
                                     !.hashedPassword = Hash(passwordReq.newPassword)]
    /\ UNCHANGED <<addressReq, user, referral, coreTeamMembers, transaction, transfers, req,
                   signup, tx, verify, resend, login, now>>

\* The User table with the password of the rows of this email replaced.
WithPassword(users, email, hashedPassword) ==
    [id \in 1..Len(users) |->
        IF users[id].email = email
        THEN [users[id] EXCEPT !.password = hashedPassword] ELSE users[id]]

\* Lines 426-441: prisma.user.update({ where: { email } }) writes the hash
\* of the new password, then 200; a throw is answered 500 by the catch
\* block.
ChangePasswordUpdate(ok) ==
    /\ passwordReq.pc = "update"
    /\ user' = IF ok THEN WithPassword(user, passwordReq.email,
                                       passwordReq.hashedPassword)
                ELSE user
    /\ passwordReq' = PasswordRespond(IF ok THEN 200 ELSE 500)
    /\ UNCHANGED <<addressReq, referral, coreTeamMembers, transaction, transfers, req,
                   signup, tx, verify, resend, login, now>>

\* Time passes.
Tick ==
    /\ now < MaxTime
    /\ now' = now + 1
    /\ UNCHANGED <<passwordReq, addressReq, user, referral, coreTeamMembers, transaction, transfers, req,
                   signup, tx, verify, resend, login>>

\* ---------------------------------------------- updateAddressOfUserHandle
\* res.status(code).json(...): the handler returns and its locals are gone.
AddressRespond(code) == [NoAddressReq EXCEPT !.pc = "done", !.status = code]

\* schema.validate(req.body) without error: the address is a string of 5 to
\* 200 characters, as every address of the model but the empty one is.
ValidAddressBody(address) == address # <<>>

\* prisma.user.findUnique({ where: { id } }): the id, or Null.
FindUserById(users, id) == IF id \in 1..Len(users) THEN id ELSE Null

\* Lines 692-717: an invalid body is answered 401; else the caller's row is
\* looked up, a caller without row is answered 404, and otherwise the
\* handler goes on to the update. ok = FALSE: the lookup throws. A request
\* is sent when the one before it was answered.
UpdateAddressFind(userId, address, ok) ==
    /\ addressReq.pc \in {"new", "done"}
    /\ addressReq' =
            IF ~ValidAddressBody(address) THEN AddressRespond(401)
            ELSE IF ~ok THEN AddressRespond(501)
            ELSE IF FindUserById(user, userId) = Null THEN AddressRespond(404)
            ELSE [NoAddressReq EXCEPT !.pc = "update", !.userId = userId,
                                      !.address = address]
    /\ UNCHANGED <<passwordReq, verify, resend, login, now, signup, tx, user, referral, coreTeamMembers, transaction, transfers, req>>

\* Lines 719-730: prisma.user.update sets walletAddress, then 201; a throw
\* is answered 501 by the catch block of lines 731-735.
UpdateAddressUpdate(ok) ==
    /\ addressReq.pc = "update"
    /\ user' = IF ok THEN [user EXCEPT ![addressReq.userId].walletAddress =
                                            addressReq.address]
                ELSE user
    /\ addressReq' = AddressRespond(IF ok THEN 201 ELSE 501)
    /\ UNCHANGED <<passwordReq, verify, resend, login, now, signup, tx, referral, coreTeamMembers, transaction, transfers, req>>

\* A CoreTeamMembers row is provisioned for a user (no handler of the
\* controller writes this table).
CoreTeamAdd(id) ==
    /\ id \in UserIds
    /\ id \notin coreTeamMembers
    /\ coreTeamMembers' = coreTeamMembers \cup {id}
    /\ UNCHANGED <<passwordReq, addressReq, verify, resend, login, now, signup, tx, user, referral, transaction, transfers, req>>

\* ------------------------------------------------------------- gateway
\* contractInstance.transfer(address, amount) resolves to { hash } or throws.
\* The hash of the transfer request r made for a tier.
TxHash(r, tier) == <<"0xtx", r, tier>>

TransferCall(r, tier, to, amount) ==
    [req |-> r, tier |-> tier, to |-> to, amount |-> amount, hash |-> <<>>]

\* The transfer of request r for a tier completed with this hash.
Settle(log, r, tier, hash) ==
    [k \in 1..Len(log) |->
        IF log[k].req = r /\ log[k].tier = tier
        THEN [log[k] EXCEPT !.hash = hash] ELSE log[k]]

\* -------------------------------------------------- referralRewardHandle
\* res.status(code).json(...): the handler returns and its locals are gone;
\* the request keeps who sent it, with what value, the response, and the
\* error the catch block logged ("" when nothing was thrown).
Respond(q, code, error) ==
    [NoRequest EXCEPT !.pc = "done", !.userId = q.userId, !.value = q.value,
                      !.status = code, !.error = error]

\* Lines 915-918: the catch block of the handler.
Caught(q, error) == Respond(q, 500, error)

\* Lines 862-864: no referral edge for the caller.
NoReferrerResponseBodyCode(q) == Respond(q, 400, "")
NoReferrerResponse(q) == Respond(q, 404, "")

\* Line 914: the handler ran to its end.
RewardsSent(q) == Respond(q, 200, "")

\* The row of prisma.transaction.create for a reward.
RewardRow(userId, hash, amount) ==
    [userId |-> userId, transactionHash |-> hash, amount |-> amount,
     status |-> "completed", type |-> "reward"]

\* A handler that makes no gateway call for a direct reward of zero and
\* goes straight on to the root tier.
RewardStartSkipZero(r, userId, value, ok) ==
    /\ req[r].pc = "new"
    /\ userId \in UserIds
    /\ LET q == [req[r] EXCEPT !.userId = userId, !.value = value]
           edge == FindReferral(referral, userId)
           referrer == edge.referrerId
           directReward == DirectReward(BigInt(value))
       IN IF ~IsBigIntLiteral(value)
          THEN /\ req' = [req EXCEPT ![r] = Caught(q, "SyntaxError")]
               /\ transfers' = transfers
          ELSE IF ~ok
          THEN /\ req' = [req EXCEPT ![r] = Caught(q, "StoreError")]
               /\ transfers' = transfers
          ELSE IF ~IsEdge(edge)
          THEN /\ req' = [req EXCEPT ![r] = NoReferrerResponse(q)]
               /\ transfers' = transfers
          ELSE IF directReward = 0
          THEN /\ req' = [req EXCEPT ![r] =
                            [q EXCEPT !.pc = "findRoot", !.referrer = referrer]]
               /\ transfers' = transfers
          ELSE /\ req' = [req EXCEPT ![r] =
                            [q EXCEPT !.pc = "directTransfer",
                                      !.referrer = referrer,
                                      !.walletAddress = user[referrer].walletAddress]]
               /\ transfers' = Append(transfers,
                      TransferCall(r, "direct", user[referrer].walletAddress,
                                   [bigint |-> directReward]))
    /\ UNCHANGED <<passwordReq, addressReq, verify, resend, login, now, signup, tx, user, referral, coreTeamMembers, transaction>>

\* Lines 841-874: BigInt(value), the lookup of the caller's referral edge,
\* the 10% reward and the call of the gateway for it.
RewardStart(r, userId, value, ok) ==
    /\ req[r].pc = "new"
    /\ userId \in UserIds
    /\ LET q == [req[r] EXCEPT !.userId = userId, !.value = value]
           edge == FindReferral(referral, userId)
           referrer == edge.referrerId
           directReward == DirectReward(BigInt(value))
       IN IF ~IsBigIntLiteral(value)
          THEN /\ req' = [req EXCEPT ![r] = Caught(q, "SyntaxError")]
               /\ transfers' = transfers
          ELSE IF ~ok
          THEN /\ req' = [req EXCEPT ![r] = Caught(q, "StoreError")]
               /\ transfers' = transfers
          ELSE IF ~IsEdge(edge)
          THEN /\ req' = [req EXCEPT ![r] = NoReferrerResponse(q)]
               /\ transfers' = transfers
          ELSE /\ req' = [req EXCEPT ![r] =
                            [q EXCEPT !.pc = "directTransfer",
                                      !.referrer = referrer,
                                      !.walletAddress = user[referrer].walletAddress]]
               /\ transfers' = Append(transfers,
                      TransferCall(r, "direct", user[referrer].walletAddress,
                                   [bigint |-> directReward]))
    /\ UNCHANGED <<passwordReq, addressReq, verify, resend, login, now, signup, tx, user, referral, coreTeamMembers, transaction>>

\* Line 874 returns or throws; lines 877-885 ask the store for the row.
RewardDirectTransfer(r, ok) ==
    /\ req[r].pc = "directTransfer"
    /\ IF ok
       THEN /\ req' = [req EXCEPT ![r].pc = "directRecord",
                                  ![r].hash = TxHash(r, "direct")]
            /\ transfers' = Settle(transfers, r, "direct", TxHash(r, "direct"))
       ELSE /\ req' = [req EXCEPT ![r] = Caught(req[r], "GatewayError")]
            /\ transfers' = transfers
    /\ UNCHANGED <<passwordReq, addressReq, verify, resend, login, now, signup, tx, user, referral, coreTeamMembers, transaction>>

\* A record step that writes no second reward row for a referrer who has one.
RewardDirectRecordOnce(r, ok) ==
    /\ req[r].pc = "directRecord"
    /\ IF ok
       THEN /\ transaction' =
                  IF \E k \in 1..Len(transaction) :
                        /\ transaction[k].userId = req[r].referrer
                        /\ transaction[k].type = "reward"
                  THEN transaction
                  ELSE Append(transaction,
                          RewardRow(req[r].referrer, req[r].hash,
                                    BigIntToString(DirectReward(BigInt(req[r].value)))))
            /\ req' = [req EXCEPT ![r].pc = "findRoot"]
       ELSE /\ transaction' = transaction
            /\ req' = [req EXCEPT ![r] = Caught(req[r], "StoreError")]
    /\ UNCHANGED <<passwordReq, addressReq, verify, resend, login, now, signup, tx, user, referral, coreTeamMembers, transfers>>

\* Lines 877-885 return or throw; line 888 enters findRootUser.
RewardDirectRecord(r, ok) ==
    /\ req[r].pc = "directRecord"
    /\ IF ok
       THEN /\ transaction' = Append(transaction,
                  RewardRow(req[r].referrer, req[r].hash,
                            BigIntToString(DirectReward(BigInt(req[r].value)))))
            /\ req' = [req EXCEPT ![r].pc = "findRoot"]
       ELSE /\ transaction' = transaction
            /\ req' = [req EXCEPT ![r] = Caught(req[r], "StoreError")]
    /\ UNCHANGED <<passwordReq, addressReq, verify, resend, login, now, signup, tx, user, referral, coreTeamMembers, transfers>>

\* A root tier that answers a failure by taking back the last row written.
RootTierRowsRollback(r, ok) ==
    IF ~ok THEN SubSeq(transaction, 1, Len(transaction) - 1)
    ELSE IF req[r].pc = "rootRecord"
    THEN Append(transaction,
            RewardRow(req[r].rootUser, req[r].hash,
                      NumberToString(RootReward(req[r].value))))
    ELSE transaction

\* The Transaction table after a step of the root tier: prisma.transaction
\* .create at line 902 appends the root row; every other step, and the catch
\* block, leave the table as it is.
RootTierRows(r, ok) ==
    IF ok /\ req[r].pc = "rootRecord"
    THEN Append(transaction,
            RewardRow(req[r].rootUser, req[r].hash,
                      NumberToString(RootReward(req[r].value))))
    ELSE transaction

\* Lines 888-914: the root tier. findRoot is the lookup of line 22 and
\* findRootLoop the lookup of line 28, once for every round of the loop;
\* coreTeam is the membership lookup, rootTransfer and rootRecord the 2.5%
\* transfer and its row. ok = FALSE is the awaited call throwing.
RewardRootTier(r, ok) ==
    /\ req[r].pc \in {"findRoot", "findRootLoop", "coreTeam", "rootTransfer", "rootRecord"}
    /\ LET q == req[r]
           walk == IF q.pc = "findRoot" THEN FindRootEnter(referral, q.referrer)
                   ELSE FindRootStep(referral, q.currentUser)
           rootReward == RootReward(q.value)
       IN /\ req' = [req EXCEPT ![r] =
                IF ~ok
                THEN Caught(q, IF q.pc = "rootTransfer" THEN "GatewayError"
                               ELSE "StoreError")
                ELSE IF q.pc \in {"findRoot", "findRootLoop"}
                THEN IF ~walk.returns
                     THEN [q EXCEPT !.pc = "findRootLoop",
                                    !.currentUser = walk.currentUser]
                     ELSE IF walk.root = Null THEN RewardsSent(q)
                     ELSE [q EXCEPT !.pc = "coreTeam", !.rootUser = walk.root,
                                    !.rootWallet = user[walk.root].walletAddress]
                ELSE IF q.pc = "coreTeam"
                THEN IF q.rootUser \in coreTeamMembers
                     THEN [q EXCEPT !.pc = "rootTransfer"]
                     ELSE RewardsSent(q)
                ELSE IF q.pc = "rootTransfer"
                THEN [q EXCEPT !.pc = "rootRecord", !.hash = TxHash(r, "root")]
                ELSE RewardsSent(q)]
          /\ transfers' =
                IF ok /\ q.pc = "coreTeam" /\ q.rootUser \in coreTeamMembers
                THEN Append(transfers,
                        TransferCall(r, "root", q.rootWallet, [number |-> rootReward]))
                ELSE IF ok /\ q.pc = "rootTransfer"
                THEN Settle(transfers, r, "root", TxHash(r, "root"))
                ELSE transfers
          /\ transaction' = RootTierRows(r, ok)
    /\ UNCHANGED <<passwordReq, addressReq, verify, resend, login, now, signup, tx, user, referral, coreTeamMembers>>

\* ---------------------------------------------- transactionDetailsHandle
\* A schema that checks status only, letting any type through.
ValidTransactionBodyAnyType(body) ==
    /\ body.transactionHash # <<>>
    /\ body.amount # <<>>
    /\ body.status \in {"pending", "completed", "failed"}

\* schema.validate(req.body) without error: Joi.string().required() refuses
\* the empty string, .valid(...) anything but the listed words.
ValidTransactionBody(body) ==
    /\ body.transactionHash # <<>>
    /\ body.amount # <<>>
    /\ body.status \in {"pending", "completed", "failed"}
    /\ body.type \in {"deposit", "withdrawal", "transfer"}

\* prisma.transaction.findFirst({ where: { transactionHash } }) finds a row.
ExistedTx(rows, transactionHash) ==
    \E k \in 1..Len(rows) : rows[k].transactionHash = transactionHash

\* The data of prisma.transaction.create in transactionDetailsHandle.
ReportedRow(userId, body) ==
    [userId |-> userId, transactionHash |-> body.transactionHash,
     amount |-> body.amount, status |-> body.status, type |-> body.type]

\* res.status(code).json(...): the handler returns and its locals are gone.
TxRespond(code) == [NoTx EXCEPT !.pc = "done", !.status = code]

\* Lines 540-566: an invalid body is answered 401; else the hash is looked
\* up, a hash that is there is answered 404, and otherwise the handler goes
\* on to create the row. ok = FALSE: the lookup throws. Reports are numbered
\* in the order they are sent.
TransactionDetailsFind(t, userId, body, ok) ==
    /\ tx[t].pc = "new"
    /\ \A x \in 1..(t - 1) : tx[x].pc # "new"
    /\ userId \in UserIds
    /\ tx' = [tx EXCEPT ![t] =
            IF ~ValidTransactionBody(body) THEN TxRespond(401)
            ELSE IF ~ok THEN TxRespond(501)
            ELSE IF ExistedTx(transaction, body.transactionHash) THEN TxRespond(404)
            ELSE [@ EXCEPT !.pc = "create", !.userId = userId, !.body = body]]
    /\ UNCHANGED <<passwordReq, addressReq, verify, resend, login, now, user, referral, coreTeamMembers, transaction, transfers, req, signup>>

\* Lines 568-586: prisma.transaction.create, then 201; a throw is answered 501.
TransactionDetailsCreate(t, ok) ==
    /\ tx[t].pc = "create"
    /\ transaction' = IF ok THEN Append(transaction, ReportedRow(tx[t].userId, tx[t].body))
                      ELSE transaction
    /\ tx' = [tx EXCEPT ![t] = TxRespond(IF ok THEN 201 ELSE 501)]
    /\ UNCHANGED <<passwordReq, addressReq, verify, resend, login, now, user, referral, coreTeamMembers, transfers, req, signup>>

\* ------------------------------------------------------- specification
ReferralCodes == {<<>>, CodeOf(0)} \cup {CodeOf(id) : id \in UserIds}

\* The signups other than s are not sent yet or were answered.
OneAtATime(s) == \A x \in Signups \ {s} : signup[x].pc \in {"new", "done"}

\* The steps of the signups S, of the address updates, and of the reward
\* requests R, which send a value of V; all of them interleave. Signup s
\* is sent for the email s, which nobody else uses, with no referral code,
\* an unknown one, or the code of a user in the table, when the signup
\* before it was answered (SpecSignup has the signups that overlap). A user
\* without address sets the own. The store and the mailer do not fail under
\* a signup (SpecSignup has the signups that fail); under an address update
\* and under a reward request every awaited call may throw. generateOTP()
\* returns one code here: no step of these handlers reads an OTP.
NextOf(S, R, V) ==
    \/ \E s \in S, referralCode \in ReferralCodes :
          OneAtATime(s) /\ SignupFindEmail(s, s, referralCode, OtpOf(1), TRUE)
    \/ \E s \in S : SignupCreateUser(s, TRUE)
    \/ \E s \in S : SignupFindReferrer(s, TRUE)
    \/ \E s \in S : SignupCreateReferral(s, TRUE)
    \/ \E s \in S : SignupSendMail(s, TRUE)
    \/ \E userId \in UserIds :
          /\ user[userId].walletAddress = NoWallet
          /\ \E ok \in BOOLEAN : UpdateAddressFind(userId, AddressOf(userId), ok)
    \/ \E ok \in BOOLEAN : UpdateAddressUpdate(ok)
    \/ \E id \in UserIds : CoreTeamAdd(id)
    \/ \E r \in R, userId \in UserIds, value \in V, ok \in BOOLEAN :
          RewardStart(r, userId, value, ok)
    \/ \E r \in R, ok \in BOOLEAN : RewardDirectTransfer(r, ok)
    \/ \E r \in R, ok \in BOOLEAN : RewardDirectRecord(r, ok)
    \/ \E r \in R, ok \in BOOLEAN : RewardRootTier(r, ok)

\* A report names a hash the gateway has returned so far, one of the
\* reporter's own, or none.
GatewayHashes == {transfers[k].hash : k \in 1..Len(transfers)} \ {<<>>}

TxBodies ==
    [transactionHash : GatewayHashes \cup {<<"0xuser">>, <<>>},
     amount : {<<"5">>},
     status : {"pending", "settled"},
     type : {"deposit", "reward"}]

\* The steps of the transaction reports T.
NextReports(T) ==
    \/ \E t \in T, userId \in UserIds, body \in TxBodies, ok \in BOOLEAN :
            TransactionDetailsFind(t, userId, body, ok)
    \/ \E t \in T, ok \in BOOLEAN : TransactionDetailsCreate(t, ok)

\* Up to MaxRequests reward requests, interleaved with each other, with the
\* signups of up to MaxAccounts users, the address updates and a
\* transaction report.
Next == NextOf(1..MaxAccounts, Requests, Values) \/ NextReports({1})

Spec == Init /\ [][Next]_vars

\* One reward request, interleaved with the signups of up to MaxUsers users
\* and the address updates; no transaction report is sent.
NextSeq == NextOf(Signups, {1}, MoreValues)

SpecSeq == Init /\ [][NextSeq]_vars

\* One reward request together with the transaction reports.
NextTx ==
    NextOf(1..MaxAccounts, {1}, {<<"1", "0", "0", "0">>}) \/ NextReports(TxRequests)

SpecTx == Init /\ [][NextTx]_vars

\* Accounts: the signup of one user, sent without referral code, and the
\* OTP verifications, an OTP resend, a login and a password change, all
\* interleaved await by await while time passes. generateOTP() returns any
\* code of Otps. Another request names the email of the user or one nobody
\* signed up with; a verification presents a code of Otps, a login the
\* password of the signup or a wrong one, and a password change such
\* passwords as the old and as the new one. The store fails under the
\* verifications only.
AuthAccounts == {1}
KnownEmails == 1..(Len(user) + 1)
KnownPasswords ==
    {PasswordOf(s) : s \in {x \in AuthAccounts : signup[x].pc # "new"}}
        \cup {WrongPassword}

NextAuth ==
    \/ \E s \in AuthAccounts, otp \in Otps : SignupFindEmail(s, s, <<>>, otp, TRUE)
    \/ \E s \in AuthAccounts : SignupCreateUser(s, TRUE)
    \/ \E s \in AuthAccounts : SignupSendMail(s, TRUE)
    \/ \E v \in Requests, email \in KnownEmails, otp \in Otps, ok \in BOOLEAN :
            VerifyOtpFind(v, email, otp, ok)
    \/ \E v \in Requests, ok \in BOOLEAN : VerifyOtpUpdate(v, ok)
    \/ \E email \in KnownEmails, otp \in Otps : ResendOtpFind(1, email, otp, TRUE)
    \/ ResendOtpUpdate(1, TRUE)
    \/ ResendOtpMail(1, TRUE)
    \/ \E email \in KnownEmails, password \in KnownPasswords :
            LoginFind(1, email, password, TRUE)
    \/ LoginCompare(1, TRUE)
    \/ \E email \in KnownEmails, oldPassword, newPassword \in KnownPasswords :
            ChangePasswordFind(email, oldPassword, newPassword, newPassword, TRUE)
    \/ ChangePasswordCompareOld(TRUE)
    \/ ChangePasswordCompareNew(TRUE)
    \/ ChangePasswordHash(TRUE)
    \/ ChangePasswordUpdate(TRUE)
    \/ Tick

SpecAuth == Init /\ [][NextAuth]_vars

\* Signups only, each run await by await and interleaved with the others.
\* Signups are numbered in the order they are sent and emails in the order
\* of their first use: an email is one in use or the next unused one.
EmailsInUse ==
    {user[id].email : id \in UserIds}
        \cup {signup[s].email : s \in {x \in Signups : signup[x].pc # "new"}}

Emails == {email \in 1..MaxUsers : email = 1 \/ email - 1 \in EmailsInUse}

NextSignup ==
    \/ \E s \in Signups, email \in Emails, referralCode \in ReferralCodes,
            otp \in Otps, ok \in BOOLEAN :
            SignupFindEmail(s, email, referralCode, otp, ok)
    \/ \E s \in Signups, ok \in BOOLEAN : SignupCreateUser(s, ok)
    \/ \E s \in Signups, ok \in BOOLEAN : SignupFindReferrer(s, ok)
    \/ \E s \in Signups, ok \in BOOLEAN : SignupCreateReferral(s, ok)
    \/ \E s \in Signups, ok \in BOOLEAN : SignupSendMail(s, ok)

SpecSignup == Init /\ [][NextSignup]_vars

\* ------------------------------------------------- vocabulary of the claims
\* The request r was sent.
Sent(r) == req[r].pc # "new"

\* The gateway calls of request r and the Transaction rows it wrote: the
\* reward rows with the hash of its transfer (a report may carry the same
\* hash, but no report writes a row of type reward).
CallsOf(r) == {k \in 1..Len(transfers) : transfers[k].req = r}
TierCalls(r, tier) == {k \in CallsOf(r) : transfers[k].tier = tier}
TierRows(r, tier) ==
    {k \in 1..Len(transaction) :
        /\ transaction[k].transactionHash = TxHash(r, tier)
        /\ transaction[k].type = "reward"}
RowsOf(r) == TierRows(r, "direct") \cup TierRows(r, "root")

\* The referral forest, read off the edge set without the resolver.
HasReferrer(u) == \E e \in referral : e.referredId = u
ReferrerOf(u) == (CHOOSE e \in referral : e.referredId = u).referrerId

IsForest(ref) ==
    /\ \A e, f \in ref : e.referredId = f.referredId => e = f
    /\ ~\E S \in (SUBSET {e.referredId : e \in ref}) \ {{}} :
          \A u \in S : \E e \in ref : e.referredId = u /\ e.referrerId \in S

\* The topmost ancestor of u: follow the inbound edges until a user without one.
RECURSIVE TopAncestor(_)
TopAncestor(u) == IF HasReferrer(u) THEN TopAncestor(ReferrerOf(u)) ELSE u

\* The value of a request, when it is a non-negative integer in decimal.
IsGrossValue(v) == IsDecimalDigits(v)

\* C1: the first step of a request whose caller has no referral edge when
\* the edge is looked up answers the request, with 404 (with 500 only when
\* the value did not parse or the lookup threw), calls no gateway and
\* creates no Transaction row; and a request answered 404 has no gateway
\* call and no row, whatever edge is written for its caller afterwards.
C1_NoReferrer ==
    [][\A r \in Requests :
          /\ (req[r].pc = "new" /\ req'[r].pc # "new"
                    /\ ~HasReferrer(req'[r].userId)) =>
                /\ req'[r].pc = "done"
                /\ req'[r].status = IF req'[r].error = "" THEN 404 ELSE 500
                /\ transfers' = transfers
                /\ transaction' = transaction
          /\ req'[r].status = 404 => (CallsOf(r) = {} /\ RowsOf(r) = {})']_vars

\* A request was answered 404 while the signup of its caller was between
\* the creation of the user and the creation of the edge, which is there now.
C1_Witness ==
    \E r \in Requests :
        /\ req[r].status = 404
        /\ IsBigIntLiteral(req[r].value)
        /\ HasReferrer(req[r].userId)
        /\ CallsOf(r) = {} /\ RowsOf(r) = {}

\* C7 (as claimed): a request whose direct referrer has no wallet address
\* makes no gateway call and creates no row, and does not end in success.
C7_MissingWalletStopsTransfer ==
    \A r \in Requests :
        (/\ Sent(r)
         /\ HasReferrer(req[r].userId)
         /\ user[ReferrerOf(req[r].userId)].walletAddress = NoWallet) =>
            /\ CallsOf(r) = {}
            /\ RowsOf(r) = {}
            /\ req[r].status # 200

\* C8: for a non-negative integer value, the amount handed to the gateway for
\* the direct tier and the amount of its row are floor(value / 10).
C8_DirectRewardIsFloorOfTenth ==
    \A r \in Requests :
        IsGrossValue(req[r].value) =>
            /\ \A k \in TierCalls(r, "direct") :
                  /\ transfers[k].amount.bigint = BigInt(req[r].value) \div 10
                  /\ req[r].value = <<"1", "0", "0", "0">> => transfers[k].amount.bigint = 100
                  /\ req[r].value = <<"7">> => transfers[k].amount.bigint = 0
            /\ \A k \in TierRows(r, "direct") :
                  /\ IsDecimalDigits(transaction[k].amount)
                  /\ BigInt(transaction[k].amount) = BigInt(req[r].value) \div 10
                  /\ req[r].value = <<"1", "0", "0", "0">> =>
                        transaction[k].amount = <<"1", "0", "0">>
                  /\ req[r].value = <<"7">> => transaction[k].amount = <<"0">>

\* A request of value 7 sent 0 to the gateway and recorded "0".
C8_Witness ==
    \E r \in Requests :
        /\ req[r].value = <<"7">>
        /\ \E k \in TierCalls(r, "direct") : transfers[k].amount.bigint = 0
        /\ \E k \in TierRows(r, "direct") : transaction[k].amount = <<"0">>

\* C10: on an acyclic referral forest findRootUser terminates for every start
\* user, and what it returns is null or a user without inbound edge.
C10_FindRootTerminates ==
    IsForest(referral) =>
        \A u \in UserIds :
            LET found == findRootUser(referral, u)
            IN /\ found.terminates
               /\ \/ found.root = Null
                  \/ found.root \in UserIds /\ ~HasReferrer(found.root)

\* A request is in the loop of the resolver, on a chain of two edges: the
\* lookup of line 22 found the edge into the caller's referrer.
C10_Witness ==
    /\ IsForest(referral)
    /\ \E r \in Requests :
          /\ req[r].pc = "findRootLoop"
          /\ req[r].currentUser.referredId = req[r].referrer
          /\ req[r].currentUser \in referral

\* C2 (as claimed): when the start user's referrer has a further ancestor,
\* findRootUser returns the topmost ancestor of the chain; it returns null
\* only for a start user without inbound edge.
C2_FindRootReturnsTopAncestor ==
    \A u \in UserIds :
        LET found == findRootUser(referral, u)
        IN /\ (HasReferrer(u) /\ HasReferrer(ReferrerOf(u))) =>
                  (found.terminates /\ found.root = TopAncestor(u))
           /\ (found.terminates /\ found.root = Null) => ~HasReferrer(u)

\* The direct referrer of the in-flight request r has an ancestor, and the
\* topmost one is a core team member.
RootIsCoreTeam(r) ==
    /\ req[r].referrer # Null
    /\ HasReferrer(req[r].referrer)
    /\ TopAncestor(req[r].referrer) \in coreTeamMembers

\* C3 (as claimed): a request that ends with 200 while the root ancestor of
\* its direct referrer is a core team member has transferred 2.5% of the
\* value to that root and written a completed reward row for the root.
C3_RootTierPaid ==
    [][\A r \in Requests :
          (/\ req[r].pc # "done"
           /\ req'[r].pc = "done"
           /\ req'[r].status = 200
           /\ RootIsCoreTeam(r)) =>
              LET root == TopAncestor(req[r].referrer)
              IN /\ \E k \in 1..Len(transfers') :
                       /\ transfers'[k].req = r
                       /\ transfers'[k].tier = "root"
                       /\ transfers'[k].to = user[root].walletAddress
                       /\ transfers'[k].amount = [number |-> RootReward(req[r].value)]
                       /\ transfers'[k].hash = TxHash(r, "root")
                 /\ \E k \in 1..Len(transaction') :
                       /\ transaction'[k].userId = root
                       /\ transaction'[k].transactionHash = TxHash(r, "root")
                       /\ transaction'[k].status = "completed"
                       /\ transaction'[k].type = "reward"]_vars

\* The handler of request r is between its first await and its response.
InFlight(r) == req[r].pc \notin {"new", "done"}

\* C4 (as claimed): of two requests of the same caller that are in flight
\* together, at most one has persisted reward rows.
C4_ConcurrentCallsPersistOnePair ==
    \A r1, r2 \in Requests :
        (/\ r1 # r2
         /\ InFlight(r1) /\ InFlight(r2)
         /\ req[r1].userId = req[r2].userId) =>
            ~(RowsOf(r1) # {} /\ RowsOf(r2) # {})

\* C5 (as claimed): when the gateway transfer of the direct tier fails, no
\* row is written for that tier and the request goes on to the root tier
\* (the resolution of the root).
C5_RootTierAfterDirectFailure ==
    [][\A r \in Requests :
          (/\ req[r].pc = "directTransfer"
           /\ req'[r].pc # "directTransfer"
           /\ \A k \in 1..Len(transfers') :
                 (transfers'[k].req = r /\ transfers'[k].tier = "direct") =>
                     transfers'[k].hash = <<>>) =>
              /\ ~\E k \in 1..Len(transaction') :
                     transaction'[k].transactionHash = TxHash(r, "direct")
              /\ req'[r].pc = "findRoot"]_vars

\* C6 (as claimed): the step that answers a request whose direct transfer
\* and row both succeeded answers 200, and a step answers 404 only for a
\* caller without referral edge.
C6_DirectSuccessAnswers200 ==
    [][\A r \in Requests :
          (req[r].pc # "done" /\ req'[r].pc = "done") =>
              /\ TierRows(r, "direct") # {} => req'[r].status = 200
              /\ req'[r].status = 404 => ~HasReferrer(req'[r].userId)]_vars

\* The direct tier of request r succeeded: its transfer returned and its row
\* was written (the handler went on to the root tier or answered 200).
DirectTierDone(r) ==
    \/ req[r].pc \in {"findRoot", "findRootLoop", "coreTeam", "rootTransfer", "rootRecord"}
    \/ req[r].pc = "done" /\ req[r].status = 200

\* The root tier of request r succeeded.
RootTierDone(r) ==
    /\ req[r].pc = "done" /\ req[r].status = 200
    /\ \E k \in TierCalls(r, "root") : transfers[k].hash # <<>>

\* The integer a decimal string denotes; -1 for a string that is none.
ParseInteger(s) == IF IsDecimalDigits(s) THEN DigitsToNat(s) ELSE 0 - 1

\* C9: for a non-negative integer value, each tier that succeeded has exactly
\* one Transaction row, whose amount string parses back to the integer reward
\* handed to the gateway for that tier; no tier has more than one row.
C9_RowAmountRoundTrip ==
    \A r \in Requests :
        IsGrossValue(req[r].value) =>
            /\ Cardinality(TierRows(r, "direct")) <= 1
            /\ Cardinality(TierRows(r, "root")) <= 1
            /\ DirectTierDone(r) =>
                  /\ Cardinality(TierRows(r, "direct")) = 1
                  /\ \A k \in TierRows(r, "direct") : \A c \in TierCalls(r, "direct") :
                        ParseInteger(transaction[k].amount) = transfers[c].amount.bigint
            /\ RootTierDone(r) =>
                  /\ Cardinality(TierRows(r, "root")) = 1
                  /\ \A k \in TierRows(r, "root") : \A c \in TierCalls(r, "root") :
                        /\ IsDecimalDigits(transaction[k].amount)
                        /\ ToNumber(transaction[k].amount) = transfers[c].amount.number

C9_Witness ==
    \E r \in Requests :
        /\ req[r].value = <<"1", "0", "0", "0">>
        /\ req[r].pc = "done" /\ req[r].status = 200
        /\ \E k \in TierRows(r, "direct") : transaction[k].amount = <<"1", "0", "0">>

\* C11: whatever signups ran, in whatever interleaving, the referral edges
\* form a forest over the users: every user is the referredId of at most one
\* edge, no edge joins a user to itself, no walk along the edges comes back
\* to its start, and a step never changes or removes an existing edge.
C11_SignupKeepsForest ==
    [][/\ IsForest(referral')
       /\ \A e \in referral' :
            /\ e.referrerId \in 1..Len(user') /\ e.referredId \in 1..Len(user')
            /\ e.referrerId # e.referredId
       /\ \A e1, e2 \in referral' : e1.referredId = e2.referredId => e1 = e2
       /\ referral \subseteq referral']_vars

\* Three signups made a chain of two edges, the second one written while
\* another signup was still under way.
C11_Witness ==
    /\ Cardinality(referral) = 2
    /\ \E e1, e2 \in referral : e1.referredId = e2.referrerId
    /\ \E s \in Signups : signup[s].pc \in {"createUser", "findReferrer", "sendMail"}

\* The decimal string of an amount handed to the gateway.
AmountString(amount) ==
    IF "bigint" \in DOMAIN amount
    THEN BigIntToString(amount.bigint) ELSE NumberToString(amount.number)

\* The user a tier of request r pays: the direct referrer of the caller, or
\* the topmost ancestor of that referrer.
RecipientOf(r, tier) ==
    IF tier = "direct" THEN ReferrerOf(req[r].userId)
    ELSE TopAncestor(ReferrerOf(req[r].userId))

\* C12 (as claimed): once a request has been answered, whatever the answer,
\* every gateway transfer of it that succeeded has a Transaction row with
\* the transfer's hash, its recipient and its amount.
C12_SettledTransferIsRecorded ==
    \A r \in Requests :
        req[r].pc = "done" =>
            \A k \in CallsOf(r) :
                transfers[k].hash # <<>> =>
                    \E j \in 1..Len(transaction) :
                        /\ transaction[j].transactionHash = transfers[k].hash
                        /\ transaction[j].userId = RecipientOf(r, transfers[k].tier)
                        /\ transaction[j].amount = AmountString(transfers[k].amount)

\* C13 (as claimed): in every reachable state, however reports and reward
\* requests interleave, no two Transaction rows carry the same hash.
C13_TransactionHashUnique ==
    \A j, k \in 1..Len(transaction) :
        transaction[j].transactionHash = transaction[k].transactionHash => j = k

\* The request r is in its root tier: the direct tier is behind it.
InRootTier(r) ==
    req[r].pc \in {"findRoot", "findRootLoop", "coreTeam", "rootTransfer", "rootRecord"}

\* C14: a step of the root tier that fails (the request is answered 500)
\* finds the direct row of the request in the table and leaves it in place
\* and unchanged, as it leaves every other row.
C14_RootFailureKeepsDirectRow ==
    [][\A r \in Requests :
          (InRootTier(r) /\ req'[r].pc = "done" /\ req'[r].status = 500) =>
              /\ TierRows(r, "direct") # {}
              /\ Len(transaction') >= Len(transaction)
              /\ \A k \in 1..Len(transaction) : transaction'[k] = transaction[k]]_vars

\* A request whose root tier failed: it was answered 500 for a store error
\* and its direct row is in the table.
C14_Witness ==
    \E r \in Requests :
        /\ req[r].pc = "done" /\ req[r].status = 500 /\ req[r].error = "StoreError"
        /\ \E k \in TierRows(r, "direct") :
              /\ transaction[k].type = "reward"
              /\ transaction[k].userId = ReferrerOf(req[r].userId)

\* The caller of request r has a direct referrer with a referrer of its own,
\* and the topmost ancestor of that chain has no CoreTeamMembers row.
RootIsNoMember(r) ==
    /\ Sent(r)
    /\ HasReferrer(req[r].userId)
    /\ HasReferrer(ReferrerOf(req[r].userId))
    /\ TopAncestor(ReferrerOf(req[r].userId)) \notin coreTeamMembers

\* The request r is in its root tier, for a direct referrer with a referrer
\* of its own, and the topmost ancestor of that chain has no
\* CoreTeamMembers row.
RootTierOfNoMember(r) ==
    /\ InRootTier(r)
    /\ HasReferrer(req[r].referrer)
    /\ TopAncestor(req[r].referrer) \notin coreTeamMembers

\* C15: when the root of the caller's chain is not a core team member, a
\* step of the root tier makes no root-tier transfer and writes no root
\* row, and unless something throws the request is answered 200.
C15_NonMemberRootIsSkipped ==
    [][\A r \in Requests :
          (RootTierOfNoMember(r) /\ req'[r] # req[r]) =>
              /\ (TierCalls(r, "root") = {})'
              /\ (TierRows(r, "root") = {})'
              /\ (req'[r].pc = "done" /\ req'[r].error = "") =>
                        req'[r].status = 200]_vars

\* A request answered 200 after its direct transfer, while the root of the
\* chain is no member (its direct referrer is one).
C15_Witness ==
    \E r \in Requests :
        /\ RootIsNoMember(r)
        /\ req[r].pc = "done" /\ req[r].status = 200
        /\ ReferrerOf(req[r].userId) \in coreTeamMembers
        /\ \E k \in TierCalls(r, "direct") : transfers[k].hash # <<>>

\* The direct transfers of request r that the gateway completed, and the
\* reward rows written for them.
SettledDirect(r) == {k \in TierCalls(r, "direct") : transfers[k].hash # <<>>}
DirectRewardRows(r) ==
    {k \in TierRows(r, "direct") :
        /\ transaction[k].type = "reward"
        /\ transaction[k].userId = ReferrerOf(req[r].userId)}

\* C16: nothing deduplicates. Two requests of one referred user that were
\* both answered 200 have made one completed direct transfer each and have
\* written one direct reward row each: two transfers and two rows for the
\* same referrer.
C16_RepeatedCallsPayTwice ==
    \A r1, r2 \in Requests :
        (/\ r1 # r2
         /\ req[r1].pc = "done" /\ req[r1].status = 200
         /\ req[r2].pc = "done" /\ req[r2].status = 200
         /\ req[r1].userId = req[r2].userId) =>
            /\ Cardinality(SettledDirect(r1)) = 1
            /\ Cardinality(SettledDirect(r2)) = 1
            /\ Cardinality(DirectRewardRows(r1) \cup DirectRewardRows(r2)) = 2

\* Two requests of one user with the same value were answered 200, the
\* second sent after the first was answered; the referrer had a wallet.
C16_Witness ==
    \E r1, r2 \in Requests :
        /\ r1 # r2
        /\ req[r1].pc = "done" /\ req[r1].status = 200
        /\ req[r2].pc = "done" /\ req[r2].status = 200
        /\ req[r1].userId = req[r2].userId /\ req[r1].value = req[r2].value
        /\ \A k \in SettledDirect(r1) \cup SettledDirect(r2) : transfers[k].to # NoWallet
        /\ \A k1 \in CallsOf(r1), k2 \in CallsOf(r2) : k1 < k2
        /\ \A j1 \in RowsOf(r1), j2 \in RowsOf(r2) : j1 < j2

\* The caller of request r has a direct referrer that nobody referred.
ReferrerIsTop(r) ==
    /\ Sent(r)
    /\ HasReferrer(req[r].userId)
    /\ ~HasReferrer(ReferrerOf(req[r].userId))

\* C17: for a caller whose direct referrer has no inbound edge, the resolver
\* started at that referrer returns null, and the request makes no root-tier
\* transfer and writes no root row, whether or not the referrer is a core
\* team member. The resolver is a function of the edge set alone.
C17_TopReferrerGetsNoRootTier ==
    \A r \in Requests :
        ReferrerIsTop(r) =>
            /\ findRootUser(referral, ReferrerOf(req[r].userId))
                    = [terminates |-> TRUE, root |-> Null]
            /\ TierCalls(r, "root") = {}
            /\ TierRows(r, "root") = {}

\* A request answered 200 whose direct referrer is a core team member
\* without a referrer of its own: only the direct transfer was made.
C17_Witness ==
    \E r \in Requests :
        /\ ReferrerIsTop(r)
        /\ ReferrerOf(req[r].userId) \in coreTeamMembers
        /\ req[r].pc = "done" /\ req[r].status = 200
        /\ Cardinality(CallsOf(r)) = 1

\* C18: within one request the root tier comes after the direct transfer:
\* a request that has reached the root tier (the resolver, the membership
\* lookup, the root transfer or its record) or has a root-tier gateway call
\* in the log has a direct-tier gateway call that precedes every root-tier
\* call of the same request.
C18_DirectTransferPrecedesRootTier ==
    \A r \in Requests :
        (InRootTier(r) \/ TierCalls(r, "root") # {}) =>
            \E d \in TierCalls(r, "direct") :
                \A k \in TierCalls(r, "root") : d < k

\* A request at the resolver, its direct transfer completed and recorded.
C18_Witness ==
    \E r \in Requests :
        /\ req[r].pc = "findRoot"
        /\ HasReferrer(ReferrerOf(req[r].userId))
        /\ \E d \in TierCalls(r, "direct") : transfers[d].hash = TxHash(r, "direct")
        /\ TierRows(r, "direct") # {}

\* C19: on every acyclic forest the resolver returns null for every start
\* user, so a request makes at most one gateway call and writes at most one
\* row, both of the direct tier and for the caller's direct referrer.
C19_AtMostOneTransferPerRequest ==
    /\ IsForest(referral) =>
            \A u \in UserIds :
                findRootUser(referral, u) = [terminates |-> TRUE, root |-> Null]
    /\ \A r \in Requests :
            /\ Cardinality(CallsOf(r)) <= 1
            /\ Cardinality(RowsOf(r)) <= 1
            /\ \A k \in CallsOf(r) :
                    /\ transfers[k].tier = "direct"
                    /\ transfers[k].to \in
                            {NoWallet, AddressOf(ReferrerOf(req[r].userId))}
            /\ \A j \in RowsOf(r) :
                    /\ transaction[j].transactionHash = TxHash(r, "direct")
                    /\ transaction[j].userId = ReferrerOf(req[r].userId)

\* A request answered 200 for a caller two edges below a core team member
\* with a wallet: one transfer and one row, to the direct referrer.
C19_Witness ==
    \E r \in Requests :
        /\ req[r].pc = "done" /\ req[r].status = 200
        /\ HasReferrer(req[r].userId)
        /\ HasReferrer(ReferrerOf(req[r].userId))
        /\ TopAncestor(ReferrerOf(req[r].userId)) \in coreTeamMembers
        /\ user[TopAncestor(ReferrerOf(req[r].userId))].walletAddress # NoWallet
        /\ Cardinality(CallsOf(r)) = 1
        /\ Cardinality(RowsOf(r)) = 1

\* Every reward row is completed and carries the hash the gateway returned
\* for a transfer of a reward request, which paid the row's user.
RewardRowsAreSettled ==
    \A j \in 1..Len(transaction) :
        transaction[j].type = "reward" =>
            /\ transaction[j].status = "completed"
            /\ \E k \in 1..Len(transfers) :
                    /\ transfers[k].hash # <<>>
                    /\ transfers[k].hash = transaction[j].transactionHash
                    /\ transaction[j].userId
                            = RecipientOf(transfers[k].req, transfers[k].tier)

\* C20: after every step each reward row is completed and was written for a
\* gateway transfer that returned its hash; a step of a transaction report
\* adds no row of a type other than deposit, withdrawal or transfer, and a
\* report that is rejected (any answer but 201) adds no row at all.
C20_RewardRowsComeFromTransfers ==
    [][/\ RewardRowsAreSettled'
       /\ \A t \in TxRequests :
            tx'[t] # tx[t] =>
                /\ \A j \in (Len(transaction) + 1)..Len(transaction') :
                        transaction'[j].type \in {"deposit", "withdrawal", "transfer"}
                /\ tx'[t].status # 201 => transaction' = transaction]_vars

\* A reward row and a reported deposit row are in the table, and a report
\* was refused by the schema.
C20_Witness ==
    /\ \E j \in 1..Len(transaction) : transaction[j].type = "reward"
    /\ \E j \in 1..Len(transaction) : transaction[j].type = "deposit"
    /\ \E t \in TxRequests : tx[t].pc = "done" /\ tx[t].status = 401

\* C21: a login issues a token only in its answering step, only from a
\* row it read as verified, and for a user whose isVerified is true in the
\* store at that step; a user is created unverified, isVerified turns true
\* only in the update step of a verification sent for that user's email
\* and answered 200, and never turns back; and a verification reaches its
\* update step only from a lookup that found the presented OTP stored for
\* that user and not expired. So every token in a response belongs to a
\* verified user, whatever requests (password changes included) run
\* between the steps of the login.
C21_TokenOnlyAfterVerification ==
    [][/\ \A l \in Requests :
            (login[l].token = NoToken /\ login'[l].token # NoToken) =>
                /\ login[l].pc = "compare"
                /\ login[l].user.isVerified = TRUE
                /\ login'[l].status = 200
                /\ login'[l].token.userId \in UserIds
                /\ user[login'[l].token.userId].isVerified = TRUE
                /\ user[login'[l].token.userId].email = login'[l].token.email
       /\ \A l \in Requests :
            login'[l].token # NoToken => user'[login'[l].token.userId].isVerified = TRUE
       /\ \A id \in 1..Len(user') :
            IF id \notin UserIds
            THEN user'[id].isVerified = FALSE
            ELSE /\ user[id].isVerified = TRUE => user'[id].isVerified = TRUE
                 /\ (user[id].isVerified = FALSE /\ user'[id].isVerified = TRUE) =>
                        \E v \in Requests :
                            /\ verify[v].pc = "update"
                            /\ verify[v].email = user[id].email
                            /\ verify'[v].pc = "done" /\ verify'[v].status = 200
       /\ \A v \in Requests :
            (verify[v].pc = "new" /\ verify'[v].pc = "update") =>
                \E id \in UserIds :
                    /\ user[id].email = verify'[v].email
                    /\ user[id].otp # NoOtp
                    /\ user[id].otp = verify'[v].otp
                    /\ user[id].otpExpiresAt # Null
                    /\ now <= user[id].otpExpiresAt]_vars

\* A login was answered with a token for a user after a verification for
\* that user's email was answered 200, in a run in which an OTP was resent
\* before, a verification was rejected and time has passed.
C21_Witness ==
    /\ \E l \in Requests, v \in Requests :
            /\ login[l].status = 200
            /\ login[l].token.userId \in UserIds
            /\ user[login[l].token.userId].isVerified = TRUE
            /\ verify[v].status = 200
            /\ verify[v].email = login[l].token.email
            /\ verify[v].otp = resend[1].otp
    /\ resend[1].status = 201
    /\ \E v \in Requests : verify[v].status = 400
    /\ now > 1

\* The user rows with this email.
RowsWithEmail(users, email) == {id \in 1..Len(users) : users[id].email = email}

\* C22: an OTP is used once and a resend supersedes it. A verification
\* answered 200 leaves the row without OTP and expiry; a resend replaces the
\* stored OTP and expiry by the ones it generated; a verification sent
\* with an OTP that is not the stored one (none is stored, as after a
\* successful verification, or another one is stored, as after a resend
\* that generated another code, or the stored one expired) is rejected;
\* and a rejected verification leaves every user row as it was.
C22_OtpSingleUse ==
    [][/\ \A v \in Requests :
            (verify[v].pc = "update" /\ verify'[v].status = 200) =>
                \A id \in RowsWithEmail(user, verify[v].email) :
                    /\ user'[id].isVerified = TRUE
                    /\ user'[id].otp = NoOtp
                    /\ user'[id].otpExpiresAt = Null
       /\ \A r \in Requests :
            (resend[r].pc = "update" /\ resend'[r].pc = "mail") =>
                \A id \in RowsWithEmail(user, resend[r].email) :
                    /\ user'[id].otp = resend[r].otp
                    /\ user'[id].otp # NoOtp
                    /\ user'[id].otpExpiresAt = resend[r].expiryOtp
       /\ \A v \in Requests :
            (verify[v].pc = "new" /\ verify'[v].pc # "new") =>
                ((\A id \in RowsWithEmail(user, verify'[v].email) :
                        \/ user[id].otp = NoOtp
                        \/ user[id].otp # verify'[v].otp
                        \/ now > user[id].otpExpiresAt)
                    => (verify'[v].pc = "done" /\ verify'[v].status \in {400, 404, 500}))
       /\ \A v \in Requests :
            (verify'[v] # verify[v] /\ verify'[v].pc = "done" /\ verify'[v].status # 200)
                => user' = user]_vars

\* Before any OTP expired, a resend was answered 201; the verification
\* sent with another code than the resent one was answered 400, the one
\* sent with the resent OTP 200, and the row has no OTP and no expiry left.
C22_Witness ==
    /\ now = 1
    /\ resend[1].status = 201
    /\ \E v1, v2 \in Requests, id \in UserIds :
            /\ verify[v1].status = 400 /\ verify[v1].otp # resend[1].otp
            /\ verify[v2].status = 200 /\ verify[v2].otp = resend[1].otp
            /\ verify[v1].email = user[id].email
            /\ verify[v2].email = user[id].email
            /\ user[id].isVerified = TRUE
            /\ user[id].otp = NoOtp
            /\ user[id].otpExpiresAt = Null

\* The signup s takes a step whose email is already the email of a user:
\* its lookup (line 88) or its create (line 107) runs on a taken email.
SignupOnTakenEmail(s) ==
    /\ signup[s].pc \in {"new", "createUser"}
    /\ signup'[s] # signup[s]
    /\ FindUserByEmail(user, signup'[s].email) # Null

\* C23: whatever signups ran, in whatever interleaving, no two users share
\* an email and no step changes an existing user row; a signup whose lookup
\* or create finds its email taken is answered with an error status and
\* writes nothing: the user rows and the referral edges stay as they were,
\* and so do the OTP and the password of the user that holds the email.
C23_SignupEmailUnique ==
    [][/\ \A id1, id2 \in 1..Len(user') :
            user'[id1].email = user'[id2].email => id1 = id2
       /\ Len(user') >= Len(user)
       /\ \A id \in 1..Len(user) : user'[id] = user[id]
       /\ \A s \in Signups :
            SignupOnTakenEmail(s) =>
                /\ signup'[s].pc = "done"
                /\ signup'[s].status \in {401, 501}
                /\ user' = user
                /\ referral' = referral]_vars

\* The first signup wrote the row of its email; the third one, sent for the
\* same email, was answered 401; the second one looked the email up before
\* the row existed and is about to create a second row for it. The row still
\* has the OTP and the password of the first signup.
C23_Witness ==
    /\ Len(user) = 1
    /\ user[1].password = Hash(PasswordOf(1)) /\ user[1].otp = OtpOf(1)
    /\ signup[1].newUser = 1
    /\ signup[2].pc = "createUser" /\ signup[2].email = user[1].email
    /\ signup[2].otp = OtpOf(2)
    /\ signup[3].pc = "done" /\ signup[3].status = 401
    /\ signup[3].email = user[1].email
    /\ referral = {}

====
